---------------------------- MODULE Spec2Model ----------------------------
(***************************************************************************)
(* One render cycle of the behaviour-monitoring dashboard                  *)
(* (detention_dashboard_app.py): the two loaders, the two normalisers      *)
(* (prepare_detentions, prepare_oncall), the two dashboards and main.      *)
(*                                                                         *)
(* Text is a sequence of one-character strings, so that strip, lower,      *)
(* substring search, split and endswith are computed character by          *)
(* character.  A table (DataFrame) is a record [some, cols, rows]: cols is *)
(* the sequence of column labels, rows the sequence of rows, each a        *)
(* sequence of cells aligned with cols.  A cell read from a file is text;  *)
(* the empty text is the missing value (NaN).  A parsed date cell is a     *)
(* number of minutes, NaT for a missing date.                              *)
(***************************************************************************)
EXTENDS Integers, Sequences, FiniteSets, TLC

VARIABLES
    det_file,       \* uploaded detentions file (widget "detentions_file")
    on_file,        \* uploaded on-call file (widget "oncall_file")
    det_sheet_url,  \* text of the "Detentions link" input
    on_sheet_url,   \* text of the "On-Call link" input
    det_remote,     \* what fetching the detentions link yields
    on_remote,      \* what fetching the on-call link yields
    det_df,         \* main's det_df
    on_df,          \* main's on_df
    reads,          \* the pandas reader calls made so far
    screen,         \* the Streamlit elements written so far, in order
    pc              \* position in main

vars == <<det_file, on_file, det_sheet_url, on_sheet_url, det_remote, on_remote,
          det_df, on_df, reads, screen, pc>>

---------------------------------------------------------------------------
(* Bounds of the explored inputs.                                          *)

\* pieces concatenated into one link text
MaxUrlParts == 4
\* rows of a detentions table in the aggregation inputs
MaxDetRows == 2
\* rows of an on-call table in the aggregation inputs
MaxOnRows == 2
\* columns of a table in the column-naming inputs
MaxCols == 4

---------------------------------------------------------------------------
(* Text constants of the program.                                          *)

Digits == <<"0","1","2","3","4","5","6","7","8","9">>
UpperCase == <<"A","B","C","D","E","F","G","H","I","J","K","L","M","N","O","P","Q","R","S","T","U","V","W","X","Y","Z">>
LowerCase == <<"a","b","c","d","e","f","g","h","i","j","k","l","m","n","o","p","q","r","s","t","u","v","w","x","y","z">>
sStudent == <<"S","t","u","d","e","n","t">>
sYear == <<"Y","e","a","r">>
sRegDotForm == <<"R","e","g","."," ","F","o","r","m">>
sRegForm == <<"R","e","g"," ","F","o","r","m">>
sHouse == <<"H","o","u","s","e">>
sReason == <<"R","e","a","s","o","n">>
sDetentionType == <<"D","e","t","e","n","t","i","o","n"," ","T","y","p","e">>
sIssuedDate == <<"I","s","s","u","e","d"," ","D","a","t","e">>
sIssuedBy == <<"I","s","s","u","e","d"," ","B","y">>
sDetentionDate == <<"D","e","t","e","n","t","i","o","n"," ","D","a","t","e">>
sDetentionAttendance == <<"D","e","t","e","n","t","i","o","n"," ","A","t","t","e","n","d","a","n","c","e">>
sAttendanceLower == <<"a","t","t","e","n","d","a","n","c","e">>
sPresent == <<"P","r","e","s","e","n","t">>
sDateSlashTime == <<"D","a","t","e","/","T","i","m","e">>
sDateTime == <<"D","a","t","e","T","i","m","e">>
sReportedByLower == <<"R","e","p","o","r","t","e","d"," ","b","y">>
sReportedBy == <<"R","e","p","o","r","t","e","d"," ","B","y">>
sLocation == <<"L","o","c","a","t","i","o","n">>
sComments == <<"C","o","m","m","e","n","t","s">>
sType == <<"T","y","p","e">>
sStudentsInvolved == <<"S","t","u","d","e","n","t","s"," ","i","n","v","o","l","v","e","d">>
sStudents == <<"S","t","u","d","e","n","t","s">>
sEvent == <<"E","v","e","n","t">>
sAssignedToLower == <<"A","s","s","i","g","n","e","d"," ","t","o">>
sAssignedTo == <<"A","s","s","i","g","n","e","d"," ","T","o">>
sStatus == <<"S","t","a","t","u","s">>
sResolved == <<"R","e","s","o","l","v","e","d">>
sUnresolved == <<"U","n","r","e","s","o","l","v","e","d">>
sDocs == <<"d","o","c","s",".","g","o","o","g","l","e",".","c","o","m">>
sEdit == <<"/","e","d","i","t">>
sSlashD == <<"/","d","/">>
sSlash == <<"/">>
sExportPrefix == <<"h","t","t","p","s",":","/","/","d","o","c","s",".","g","o","o","g","l","e",".","c","o","m","/","s","p","r","e","a","d","s","h","e","e","t","s","/","d","/">>
sExportSuffix == <<"/","e","x","p","o","r","t","?","f","o","r","m","a","t","=","c","s","v">>
sXlsx == <<".","x","l","s","x">>
sXls == <<".","x","l","s">>
sCsv == <<".","c","s","v">>

---------------------------------------------------------------------------
(* Python str operations.                                                  *)

RECURSIVE Cat(_)
\* concatenation of a sequence of texts
Cat(parts) == IF parts = <<>> THEN <<>> ELSE Head(parts) \o Cat(Tail(parts))

IsSpace(c) == c \in {" ", "\t", "\n"}

RECURSIVE lstrip(_)
\* str.lstrip()
lstrip(s) == IF s # <<>> /\ IsSpace(Head(s)) THEN lstrip(Tail(s)) ELSE s

RECURSIVE rstrip(_)
\* str.rstrip()
rstrip(s) ==
    IF s # <<>> /\ IsSpace(s[Len(s)]) THEN rstrip(SubSeq(s, 1, Len(s) - 1)) ELSE s

\* str.strip()
strip(s) == rstrip(lstrip(s))

LowerChar(c) ==
    IF \E i \in 1..Len(UpperCase) : UpperCase[i] = c
    THEN LowerCase[CHOOSE i \in 1..Len(UpperCase) : UpperCase[i] = c]
    ELSE c

\* str.lower()
lower(s) == [i \in 1..Len(s) |-> LowerChar(s[i])]

MatchAt(s, sub, i) == i + Len(sub) - 1 <= Len(s) /\ SubSeq(s, i, i + Len(sub) - 1) = sub

\* str.find(sub) + 1: the position of the first occurrence of sub in s, 0
\* when there is none
Find(s, sub) ==
    LET hits == {i \in 1..(Len(s) - Len(sub) + 1) : MatchAt(s, sub, i)}
    IN  IF hits = {} THEN 0 ELSE CHOOSE i \in hits : \A j \in hits : i <= j

\* sub in s
Contains(s, sub) == Find(s, sub) # 0

\* str.endswith(suf)
EndsWith(s, suf) ==
    Len(suf) <= Len(s) /\ SubSeq(s, Len(s) - Len(suf) + 1, Len(s)) = suf

RECURSIVE split(_, _)
\* str.split(sep), sep not empty
split(s, sep) ==
    LET i == Find(s, sep)
    IN  IF i = 0 THEN <<s>>
        ELSE <<SubSeq(s, 1, i - 1)>> \o split(SubSeq(s, i + Len(sep), Len(s)), sep)

---------------------------------------------------------------------------
(* Tables, Streamlit elements, reader calls.                               *)

\* the parse of a file or of a fetched link: a table, or a failure of the reader
Parsed(cols, rows) == [ok |-> TRUE, cols |-> cols, rows |-> rows]

Unreadable == [ok |-> FALSE, cols |-> <<>>, rows |-> <<>>]

\* main's initial value of det_df and on_df
None == [some |-> FALSE, cols |-> <<>>, rows |-> <<>>]

DataFrame(cols, rows) == [some |-> TRUE, cols |-> cols, rows |-> rows]

\* st.error / st.info / st.warning / st.header
Message(w, text) == [w |-> w, label |-> text, val |-> <<>>]

\* st.metric and st.dataframe
Element(w, label, val) == [w |-> w, label |-> label, val |-> val]

\* the uncaught exception Streamlit shows when the script raises
Traceback(where) == [w |-> "exception", label |-> where, val |-> <<>>]

ReadCall(fn, arg) == [fn |-> fn, arg |-> arg]

\* pd.read_csv / pd.read_excel on bytes whose parse is `content`
\* (content.ok = FALSE: the reader raises)
Read(fn, arg, content, failure) ==
    IF content.ok
    THEN [df |-> DataFrame(content.cols, content.rows), ui |-> <<>>,
          reads |-> <<ReadCall(fn, arg)>>]
    ELSE [df |-> None, ui |-> <<Message("error", failure)>>,
          reads |-> <<ReadCall(fn, arg)>>]

load_data_from_file(uploaded_file) ==
    IF ~uploaded_file.present
    THEN [df |-> None, ui |-> <<>>, reads |-> <<>>]
    ELSE LET filename == lower(uploaded_file.name)
         IN  IF EndsWith(filename, sCsv)
             THEN Read("read_csv", uploaded_file.name, uploaded_file.content,
                       "Error reading file")
             ELSE IF EndsWith(filename, sXlsx) \/ EndsWith(filename, sXls)
             THEN Read("read_excel", uploaded_file.name, uploaded_file.content,
                       "Error reading file")
             ELSE [df |-> None,
                   ui |-> <<Message("error", "Unsupported file format")>>,
                   reads |-> <<>>]

\* ExportUrl without the second split: the id is everything after "/d/"
ExportUrlWholeTail(url) ==
    IF Contains(url, sDocs) /\ Contains(url, sEdit)
    THEN LET parts == split(url, sSlashD)
         IN  IF Len(parts) < 2 THEN url
             ELSE sExportPrefix \o parts[2] \o sExportSuffix
    ELSE url

\* lines 76-81: the link after the Google Sheets conversion
ExportUrl(url) ==
    IF Contains(url, sDocs) /\ Contains(url, sEdit)
    THEN LET parts == split(url, sSlashD)
         IN  IF Len(parts) < 2
             THEN url    \* IndexError, swallowed by the inner except
             ELSE LET sheet_id == split(parts[2], sSlash)[1]
                  IN  sExportPrefix \o sheet_id \o sExportSuffix
    ELSE url

load_data_from_url(link, remote) ==
    IF link = <<>>
    THEN [df |-> None, ui |-> <<>>, reads |-> <<>>]
    ELSE LET url     == ExportUrl(strip(link))
             lower_  == lower(url)
             \* an empty path names nothing to read: the reader raises
             content == IF url = <<>> THEN Unreadable ELSE remote
         IN  IF EndsWith(lower_, sXlsx) \/ EndsWith(lower_, sXls)
             THEN Read("read_excel", url, content, "Error loading data from URL")
             ELSE Read("read_csv", url, content, "Error loading data from URL")

---------------------------------------------------------------------------
(* pandas operations used by the normalisers.                              *)

\* the missing value of a datetime column (pd.NaT)
NaT == -1

\* "c in df.columns"
HasColumn(df, c) == \E i \in 1..Len(df.cols) : df.cols[i] = c

\* the positions a column label selects; df[c] is a Series only when it is one
Positions(df, c) == {i \in 1..Len(df.cols) : df.cols[i] = c}

Ambiguous(df, c) == Cardinality(Positions(df, c)) > 1

ColumnIndex(df, c) == CHOOSE i \in 1..Len(df.cols) : df.cols[i] = c

\* df.rename(columns=mapping): every label that is a key of the mapping is
\* replaced, wherever it occurs
rename(df, mapping) ==
    [df EXCEPT !.cols =
        [i \in 1..Len(df.cols) |->
            IF \E p \in mapping : p[1] = df.cols[i]
            THEN (CHOOSE p \in mapping : p[1] = df.cols[i])[2]
            ELSE df.cols[i]]]

IsDigit(c) == \E i \in 1..Len(Digits) : Digits[i] = c

DigitVal(c) == (CHOOSE i \in 1..Len(Digits) : Digits[i] = c) - 1

Num2(s, i) == 10 * DigitVal(s[i]) + DigitVal(s[i + 1])

Num4(s, i) == 100 * Num2(s, i) + Num2(s, i + 2)

WellFormedDate(s) ==
    /\ Len(s) \in {10, 16}
    /\ \A i \in {1, 2, 3, 4, 6, 7, 9, 10} : IsDigit(s[i])
    /\ s[5] = "-" /\ s[8] = "-"
    /\ Num2(s, 6) \in 1..12 /\ Num2(s, 9) \in 1..31
    /\ Len(s) = 16 =>
          /\ s[11] = " " /\ s[14] = ":"
          /\ \A i \in {12, 13, 15, 16} : IsDigit(s[i])
          /\ Num2(s, 12) < 24 /\ Num2(s, 15) < 60

\* minutes in a day
MinutesPerDay == 1440

\* the calendar day of "YYYY-MM-DD", numbered in calendar order
DayNumber(s) == (Num4(s, 1) * 12 + (Num2(s, 6) - 1)) * 31 + (Num2(s, 9) - 1)

\* pd.to_datetime(value, errors='coerce') on one cell: "YYYY-MM-DD" or
\* "YYYY-MM-DD HH:MM" becomes a timestamp in minutes; the missing value and
\* text that is no date become NaT
to_datetime(v) ==
    IF WellFormedDate(v)
    THEN DayNumber(v) * MinutesPerDay
         + (IF Len(v) = 16 THEN Num2(v, 12) * 60 + Num2(v, 15) ELSE 0)
    ELSE NaT

\* Series.dt.date of one timestamp
date(ts) == ts \div MinutesPerDay

\* df[col] = pd.to_datetime(df[col], errors='coerce'), col selecting one column
ParsedColumn(df, col) ==
    LET k == ColumnIndex(df, col)
    IN  [df EXCEPT !.rows =
            [r \in 1..Len(df.rows) |->
                [j \in 1..Len(df.cols) |->
                    IF j = k THEN to_datetime(df.rows[r][j]) ELSE df.rows[r][j]]]]

\* lines 121-123 and 144-145 for one column: pd.to_datetime(df[col]) raises
\* ValueError when df[col] is a DataFrame (the label selects several columns)
ParseDateColumn(res, col) ==
    IF res.raised \/ ~HasColumn(res.df, col) THEN res
    ELSE IF Ambiguous(res.df, col) THEN [res EXCEPT !.raised = TRUE]
    ELSE [res EXCEPT !.df = ParsedColumn(res.df, col)]

---------------------------------------------------------------------------
(* The normalisers.                                                        *)

\* rename_map of prepare_detentions, lines 99-110
DetentionsRenameMap ==
    { <<sStudent, sStudent>>, <<sYear, sYear>>, <<sRegDotForm, sRegForm>>,
      <<sHouse, sHouse>>, <<sReason, sReason>>,
      <<sDetentionType, sDetentionType>>, <<sIssuedDate, sIssuedDate>>,
      <<sIssuedBy, sIssuedBy>>, <<sDetentionDate, sDetentionDate>>,
      <<sDetentionAttendance, sDetentionAttendance>> }

\* rename_map of prepare_oncall, lines 132-142
OnCallRenameMap ==
    { <<sDateSlashTime, sDateTime>>, <<sReportedByLower, sReportedBy>>,
      <<sLocation, sLocation>>, <<sComments, sComments>>, <<sType, sType>>,
      <<sStudentsInvolved, sStudents>>, <<sEvent, sEvent>>,
      <<sAssignedToLower, sAssignedTo>>, <<sStatus, sStatus>> }

\* line 112: df.columns = df.columns.str.strip()
StripColumns(df) == [df EXCEPT !.cols = [i \in 1..Len(df.cols) |-> strip(df.cols[i])]]

\* line 117: the labels containing "attendance", in column order
attendance_candidates(df) ==
    SelectSeq(df.cols, LAMBDA c : Contains(lower(c), sAttendanceLower))

\* lines 115-119
NormaliseAttendance(df) ==
    IF HasColumn(df, sDetentionAttendance) THEN df
    ELSE IF attendance_candidates(df) = <<>> THEN df
    ELSE rename(df, { <<attendance_candidates(df)[1], sDetentionAttendance>> })

\* the result is [raised, df]: raised when the function raises
prepare_detentions(df) ==
    LET renamed == NormaliseAttendance(rename(StripColumns(df), DetentionsRenameMap))
        start   == [raised |-> FALSE, df |-> renamed]
    IN  ParseDateColumn(ParseDateColumn(start, sIssuedDate), sDetentionDate)

prepare_oncall(df) ==
    ParseDateColumn([raised |-> FALSE, df |-> rename(df, OnCallRenameMap)], sDateTime)

---------------------------------------------------------------------------
(* pandas operations used by the dashboards.                               *)

\* DataFrame.empty: no rows or no columns
empty(df) == Len(df.rows) = 0 \/ Len(df.cols) = 0

\* the cell of row r in the column a label selects
Cell(df, r, c) == df.rows[r][ColumnIndex(df, c)]

\* the missing value of a text column (NaN): an empty field of the file
isna(v) == v = <<>>

\* a float quotient: attended / total, or Attended / Issued of a breakdown,
\* where pandas yields NaN for 0/0 and inf for n/0
Ratio(num, den) ==
    IF den # 0 THEN [kind |-> "ratio", num |-> num, den |-> den]
    ELSE IF num = 0 THEN [kind |-> "nan", num |-> 0, den |-> 0]
    ELSE [kind |-> "inf", num |-> num, den |-> 0]

\* character order of the texts used as group keys
CharOrder == <<" ","0","1","2","3","4","5","6","7","8","9","A","B","C","D","E","F","G","H","I","J","K","L","M","N","O","P","Q","R","S","T","U","V","W","X","Y","Z","a","b","c","d","e","f","g","h","i","j","k","l","m","n","o","p","q","r","s","t","u","v","w","x","y","z">>

Ord(c) == IF \E i \in 1..Len(CharOrder) : CharOrder[i] = c
          THEN CHOOSE i \in 1..Len(CharOrder) : CharOrder[i] = c
          ELSE 0

RECURSIVE TextLess(_, _)
\* a < b of two texts
TextLess(a, b) ==
    IF b = <<>> THEN FALSE
    ELSE IF a = <<>> THEN TRUE
    ELSE IF Head(a) = Head(b) THEN TextLess(Tail(a), Tail(b))
    ELSE Ord(Head(a)) < Ord(Head(b))

RECURSIVE SortedTexts(_)
\* the texts of a set in ascending order (groupby sorts its keys)
SortedTexts(S) ==
    IF S = {} THEN <<>>
    ELSE LET m == CHOOSE x \in S : \A y \in S : x = y \/ TextLess(x, y)
         IN  <<m>> \o SortedTexts(S \ {m})

RECURSIVE SortedNumbers(_)
\* the numbers of a set in ascending order
SortedNumbers(S) ==
    IF S = {} THEN <<>>
    ELSE LET m == CHOOSE x \in S : \A y \in S : x <= y
         IN  <<m>> \o SortedNumbers(S \ {m})

\* the aggregation both detentions breakdowns apply to the rows R of one group
\* (lines 172 and 198): Issued=('Student', 'count') counts the rows whose
\* Student is not missing, Attended counts Detention Attendance == 'Present'
IssuedCount(df, R) == Cardinality({r \in R : ~isna(Cell(df, r, sStudent))})

AttendedCount(df, R) == Cardinality({r \in R : Cell(df, r, sDetentionAttendance) = sPresent})

BreakdownRow(df, key, R) ==
    [key |-> key, Issued |-> IssuedCount(df, R), Attended |-> AttendedCount(df, R),
     Attendance_Rate |-> Ratio(AttendedCount(df, R), IssuedCount(df, R))]

\* .agg(Issued=('Student', ...), Attended=('Detention Attendance', ...)) raises
\* KeyError when a named column does not exist
AggRaises(df) ==
    \/ ~HasColumn(df, sStudent) \/ ~HasColumn(df, sDetentionAttendance)
    \/ Ambiguous(df, sStudent) \/ Ambiguous(df, sDetentionAttendance)

---------------------------------------------------------------------------
(* render_detentions_dashboard, lines 149-215.  Each part yields           *)
(* [raised, ui]: the elements it writes, and whether it raises.            *)

\* attended with the test of the breakdowns (== 'Present') in place of
\* str.contains("Present", case=False)
attended_exact(df) ==
    IF HasColumn(df, sDetentionAttendance)
    THEN Cardinality({r \in 1..Len(df.rows) :
             Cell(df, r, sDetentionAttendance) = sPresent})
    ELSE 0

\* lines 158-161
attended(df) ==
    IF HasColumn(df, sDetentionAttendance)
    THEN Cardinality({r \in 1..Len(df.rows) :
             Contains(lower(Cell(df, r, sDetentionAttendance)), lower(sPresent))})
    ELSE 0

\* lines 156-166: df['Detention Attendance'].astype(str).str raises
\* AttributeError when the label selects several columns
DetentionsSummary(df) ==
    IF HasColumn(df, sDetentionAttendance) /\ Ambiguous(df, sDetentionAttendance)
    THEN [raised |-> TRUE, ui |-> <<>>]
    ELSE LET total_detentions == Len(df.rows)
             attendance_rate  == IF total_detentions # 0
                                 THEN Ratio(attended(df), total_detentions)
                                 ELSE Ratio(0, 1)
         IN  [raised |-> FALSE,
              ui |-> << Element("metric", "Total Detentions", total_detentions),
                        Element("metric", "Attended", attended(df)),
                        Element("metric", "Attendance Rate", attendance_rate) >>]

\* lines 168-190: groupby('Year') drops the rows whose Year is missing and
\* sorts the groups by key; it raises ValueError when the label selects
\* several columns
YearBreakdown(df) ==
    IF ~HasColumn(df, sYear)
    THEN [raised |-> FALSE,
          ui |-> <<Message("warning", "The 'Year' column is missing from detentions data.")>>]
    ELSE IF Ambiguous(df, sYear) \/ AggRaises(df)
    THEN [raised |-> TRUE, ui |-> <<>>]
    ELSE LET keys == SortedTexts({Cell(df, r, sYear) : r \in 1..Len(df.rows)}
                                 \ {<<>>})
             breakdown == [g \in 1..Len(keys) |->
                 BreakdownRow(df, keys[g],
                     {r \in 1..Len(df.rows) : Cell(df, r, sYear) = keys[g]})]
         IN  [raised |-> FALSE,
              ui |-> <<Element("dataframe", "Year Group Breakdown", breakdown)>>]

\* lines 192-215: dropna(subset=['Issued Date']), Date = the calendar date,
\* groupby('Date') with the groups in ascending order of date
DailyDetentions(df) ==
    IF ~HasColumn(df, sIssuedDate)
    THEN [raised |-> FALSE,
          ui |-> <<Message("warning", "The 'Issued Date' column is missing from detentions data.")>>]
    ELSE IF AggRaises(df)
    THEN [raised |-> TRUE, ui |-> <<>>]
    ELSE LET kept == {r \in 1..Len(df.rows) : Cell(df, r, sIssuedDate) # NaT}
             keys == SortedNumbers({date(Cell(df, r, sIssuedDate)) : r \in kept})
             daily == [g \in 1..Len(keys) |->
                 BreakdownRow(df, keys[g],
                     {r \in kept : date(Cell(df, r, sIssuedDate)) = keys[g]})]
         IN  [raised |-> FALSE,
              ui |-> <<Element("dataframe", "Daily Monitoring", daily)>>]

\* the parts in order: a part that raises ends the function, and what was
\* written before it stays on the page
RECURSIVE InOrder(_)
InOrder(parts) ==
    IF parts = <<>> THEN [raised |-> FALSE, ui |-> <<>>]
    ELSE IF Head(parts).raised THEN [raised |-> TRUE, ui |-> <<>>]
    ELSE LET rest == InOrder(Tail(parts))
         IN  [raised |-> rest.raised, ui |-> Head(parts).ui \o rest.ui]

render_detentions_dashboard(df) ==
    LET header == [raised |-> FALSE,
                   ui |-> <<Message("header", "Detentions Dashboard")>>]
    IN  IF empty(df)
        THEN [raised |-> FALSE,
              ui |-> header.ui \o <<Message("info", "No detentions data available.")>>]
        ELSE InOrder(<<header, DetentionsSummary(df), YearBreakdown(df),
                       DailyDetentions(df)>>)

---------------------------------------------------------------------------
(* render_oncall_dashboard, lines 218-274.                                 *)

\* lines 226-227: df['Status'] raises KeyError when the column does not
\* exist; .str raises AttributeError when the label selects several columns
\* or the column holds no text at all (every cell missing: a float column)
StatusRaises(df) ==
    \/ ~HasColumn(df, sStatus)
    \/ Ambiguous(df, sStatus)
    \/ \A r \in 1..Len(df.rows) : isna(Cell(df, r, sStatus))

\* StatusContaining with equality in place of str.contains
StatusEqualTo(df, pat) ==
    Cardinality({r \in 1..Len(df.rows) : Cell(df, r, sStatus) = pat})

\* Series.str.contains(pat, na=False).sum() over the Status column
StatusContaining(df, pat) ==
    Cardinality({r \in 1..Len(df.rows) : Contains(Cell(df, r, sStatus), pat)})

resolved(df) == StatusContaining(df, sResolved)

unresolved(df) == StatusContaining(df, sUnresolved)

\* lines 225-231
OnCallSummary(df) ==
    IF StatusRaises(df)
    THEN [raised |-> TRUE, ui |-> <<>>]
    ELSE [raised |-> FALSE,
          ui |-> << Element("metric", "Total Incidents", Len(df.rows)),
                    Element("metric", "Resolved", resolved(df)),
                    Element("metric", "Unresolved", unresolved(df)) >>]

RECURSIVE ByCountDescending(_, _)
\* the keys of `keys` (a sequence) ordered by count, largest first; equal
\* counts keep the order of `keys`
ByCountDescending(keys, count) ==
    IF keys = <<>> THEN <<>>
    ELSE LET i == CHOOSE i \in 1..Len(keys) :
                      /\ \A j \in 1..Len(keys) : count[keys[j]] <= count[keys[i]]
                      /\ \A j \in 1..(i-1) : count[keys[j]] < count[keys[i]]
         IN  <<keys[i]>> \o
             ByCountDescending(SubSeq(keys, 1, i-1) \o SubSeq(keys, i+1, Len(keys)),
                               count)

RECURSIVE Distinct(_)
\* the distinct values of a sequence, in order of first appearance
Distinct(s) ==
    IF s = <<>> THEN <<>>
    ELSE LET init == Distinct(SubSeq(s, 1, Len(s) - 1))
             last == s[Len(s)]
         IN  IF \E i \in 1..Len(init) : init[i] = last THEN init
             ELSE Append(init, last)

\* lines 234-250: df['Type'].value_counts() leaves out the missing values and
\* orders the values by count, largest first
TypeBreakdown(df) ==
    IF ~HasColumn(df, sType)
    THEN [raised |-> FALSE,
          ui |-> <<Message("warning", "The 'Type' column is missing from on-call data.")>>]
    ELSE LET values == SelectSeq([r \in 1..Len(df.rows) |-> Cell(df, r, sType)],
                                 LAMBDA v : ~isna(v))
             count  == [v \in {values[i] : i \in 1..Len(values)} |->
                           Cardinality({i \in 1..Len(values) : values[i] = v})]
             keys   == ByCountDescending(Distinct(values), count)
             type_counts == [g \in 1..Len(keys) |->
                                [key |-> keys[g], Count |-> count[keys[g]]]]
         IN  [raised |-> FALSE,
              ui |-> <<Element("dataframe", "Incident Type Breakdown", type_counts)>>]

\* lines 252-274: Incidents=('DateTime', 'count') counts the rows of the day
\* whose DateTime is not missing
DailyIncidents(df) ==
    IF ~HasColumn(df, sDateTime)
    THEN [raised |-> FALSE,
          ui |-> <<Message("warning", "The 'Date/Time' column is missing from on-call data.")>>]
    ELSE LET kept == {r \in 1..Len(df.rows) : Cell(df, r, sDateTime) # NaT}
             keys == SortedNumbers({date(Cell(df, r, sDateTime)) : r \in kept})
             daily == [g \in 1..Len(keys) |->
                 [key |-> keys[g],
                  Incidents |-> Cardinality({r \in kept :
                      /\ date(Cell(df, r, sDateTime)) = keys[g]
                      /\ Cell(df, r, sDateTime) # NaT})]]
         IN  [raised |-> FALSE,
              ui |-> <<Element("dataframe", "Daily Monitoring", daily)>>]

render_oncall_dashboard(df) ==
    LET header == [raised |-> FALSE,
                   ui |-> <<Message("header", "On-Call Dashboard")>>]
    IN  IF empty(df)
        THEN [raised |-> FALSE,
              ui |-> header.ui \o <<Message("info", "No on-call data available.")>>]
        ELSE InOrder(<<header, OnCallSummary(df), TypeBreakdown(df),
                       DailyIncidents(df)>>)

---------------------------------------------------------------------------
(* The inputs of one render cycle: the two upload widgets, the two link    *)
(* inputs, and what the files and links hold.                              *)

tYearPadded == <<" ","Y","e","a","r"," ">>
tPupilAttendanceRecord == <<"P","u","p","i","l"," ","A","t","t","e","n","d","a","n","c","e"," ","R","e","c","o","r","d">>
tAttendanceTrailing == <<"A","T","T","E","N","D","A","N","C","E"," ">>
tAttendanceLeading == <<" ","A","T","T","E","N","D","A","N","C","E">>
tStatusPadded == <<" ","S","t","a","t","u","s"," ">>
tDateTimeTrailing == <<"D","a","t","e","/","T","i","m","e"," ">>
tTypeLeading == <<" ","T","y","p","e">>
vAnn == <<"A","n","n">>
vYear7 == <<"7">>
vYear8 == <<"8">>
vNotADate == <<"n","o","t"," ","a"," ","d","a","t","e">>
vMarch4 == <<"2","0","2","4","-","0","3","-","0","4">>
vMarch5Morning == <<"2","0","2","4","-","0","3","-","0","5"," ","0","9",":","0","0">>
vMarch5Afternoon == <<"2","0","2","4","-","0","3","-","0","5"," ","1","4",":","3","0">>
vPresentLate == <<"p","r","e","s","e","n","t"," ","(","l","a","t","e",")">>
vReopened == <<"U","n","r","e","s","o","l","v","e","d",","," ","t","h","e","n"," ","R","e","s","o","l","v","e","d">>
vOpen == <<"O","p","e","n">>
vFight == <<"F","i","g","h","t">>
vMedical == <<"M","e","d","i","c","a","l">>
nDetCsv == <<"d","e","t","e","n","t","i","o","n","s",".","c","s","v">>
nDetXlsx == <<"D","e","t","e","n","t","i","o","n","s",".","X","L","S","X">>
nDetXls == <<"d","e","t","e","n","t","i","o","n","s",".","x","l","s">>
nOnCsv == <<"o","n","c","a","l","l",".","c","s","v">>
uOnXlsx == <<"h","t","t","p","s",":","/","/","e","x","a","m","p","l","e",".","o","r","g","/","o","n","c","a","l","l",".","X","L","S","X">>
pSheets == <<"h","t","t","p","s",":","/","/","d","o","c","s",".","g","o","o","g","l","e",".","c","o","m","/","s","p","r","e","a","d","s","h","e","e","t","s">>
pId == <<"A","B","C","1","2","3">>
pEditGid == <<"/","e","d","i","t","#","g","i","d","=","0">>
pUpperXls == <<".","X","L","S">>
pSpace == <<" ">>

\* st.file_uploader's value: None, or a file with a name
NoFile == [present |-> FALSE, name |-> <<>>, content |-> Unreadable]

UploadedFile(name, content) == [present |-> TRUE, name |-> name, content |-> content]

RECURSIVE SubSeqs(_)
\* the subsequences of a sequence: any subset of the columns, in order
SubSeqs(s) ==
    IF s = <<>> THEN {<<>>}
    ELSE LET rest == SubSeqs(Tail(s))
         IN  rest \cup {<<Head(s)>> \o t : t \in rest}

\* cell values of the columns the dashboards read
CellValues(c) ==
    IF c = sStudent THEN {<<>>, vAnn}
    ELSE IF c = sYear THEN {<<>>, vYear7, vYear8}
    ELSE IF c = sIssuedDate THEN {vNotADate, vMarch4, vMarch5Morning, vMarch5Afternoon}
    ELSE IF c = sDetentionAttendance THEN {<<>>, sPresent, vPresentLate}
    ELSE IF c = sStatus THEN {<<>>, sResolved, sUnresolved, vReopened, vOpen}
    ELSE IF c = sType THEN {<<>>, vFight, vMedical}
    ELSE {<<>>, vMarch4, vMarch5Morning}

RECURSIVE RowsOver(_)
\* the rows over the columns cols, each cell from the values of its column
RowsOver(cols) ==
    IF cols = <<>> THEN {<<>>}
    ELSE {<<v>> \o r : v \in CellValues(Head(cols)), r \in RowsOver(Tail(cols))}

\* column sets of the detentions tables for the aggregation: any subset (a
\* file has at least one column) of
\* the columns one breakdown reads (Year Group Breakdown, Daily Monitoring)
DetentionsColumns ==
    (SubSeqs(<<sStudent, sYear, sDetentionAttendance>>)
        \cup SubSeqs(<<sStudent, sIssuedDate, sDetentionAttendance>>)) \ {<<>>}

\* column sets of the on-call tables for the aggregation
OnCallColumns ==
    (SubSeqs(<<sType, sStatus>>) \cup SubSeqs(<<sDateSlashTime, sStatus>>)) \ {<<>>}

\* header labels of detentions files, as typed in the export: exact, padded
\* with spaces, or another spelling of the attendance column
DetentionsLabels ==
    {sStudent, sYear, tYearPadded, sIssuedDate, sDetentionAttendance,
     tPupilAttendanceRecord, tAttendanceTrailing, tAttendanceLeading}

OnCallLabels ==
    {sStatus, tStatusPadded, sType, tTypeLeading, sDateSlashTime, tDateTimeTrailing}

\* one row of plausible cells under the given header labels
SampleCell(label) ==
    LET name == lower(strip(label))
    IN  IF Contains(name, sAttendanceLower) THEN sPresent
        ELSE IF name = lower(sYear) THEN vYear7
        ELSE IF name = lower(sIssuedDate) \/ name = lower(sDateSlashTime) THEN vMarch5Morning
        ELSE IF name = lower(sStatus) THEN sResolved
        ELSE IF name = lower(sType) THEN vFight
        ELSE vAnn

OneRowTable(cols) == Parsed(cols, <<[i \in 1..Len(cols) |-> SampleCell(cols[i])]>>)

\* a header row read by pandas never holds the same label twice
NoLabelTwice(cols) == \A i, j \in 1..Len(cols) : cols[i] = cols[j] => i = j

\* a complete, well-formed file of each kind
SampleDetentions ==
    OneRowTable(<<sStudent, sYear, sIssuedDate, sDetentionAttendance>>)

SampleOnCall == OneRowTable(<<sDateSlashTime, sType, sStatus>>)

\* pieces of the link texts
UrlPieces == {pSheets, sSlashD, pId, pEditGid, sXlsx, pUpperXls, pSpace}

\* what every cycle starts from, whatever the inputs (lines 320-321)
Start ==
    /\ det_df = None
    /\ on_df = None
    /\ reads = <<>>
    /\ screen = <<>>
    /\ pc = "load_det"

\* files with every kind of header row, and every kind of file
Init ==
    /\ Start
    /\ det_sheet_url = <<>> /\ det_remote = Unreadable
    /\ on_sheet_url = <<>> /\ on_remote = Unreadable
    /\ \/ /\ \E k \in 1..MaxCols : \E cols \in [1..k -> DetentionsLabels] :
               /\ NoLabelTwice(cols)
               /\ det_file = UploadedFile(nDetCsv, OneRowTable(cols))
          /\ on_file \in {NoFile, UploadedFile(nOnCsv, SampleOnCall)}
       \/ /\ det_file \in {NoFile, UploadedFile(nDetCsv, SampleDetentions)}
          /\ \E k \in 1..MaxCols : \E cols \in [1..k -> OnCallLabels] :
               /\ NoLabelTwice(cols)
               /\ on_file = UploadedFile(nOnCsv, OneRowTable(cols))
       \/ /\ \E n \in {nDetCsv, nDetXlsx, nDetXls} :
               \E t \in {SampleDetentions, Unreadable} :
                   det_file = UploadedFile(n, t)
          /\ on_file \in {NoFile, UploadedFile(nOnCsv, SampleOnCall),
                          UploadedFile(nOnCsv, Unreadable)}

\* links of every shape: up to MaxUrlParts pieces
InitUrl ==
    /\ Start
    /\ det_file = NoFile
    /\ on_file = NoFile
    /\ \E k \in 0..MaxUrlParts : \E ps \in [1..k -> UrlPieces] :
           det_sheet_url = Cat(ps)
    /\ det_remote = SampleDetentions
    /\ on_sheet_url = uOnXlsx
    /\ on_remote = SampleOnCall

\* detentions tables of every content: up to MaxDetRows rows
InitDet ==
    /\ Start
    /\ \E cols \in DetentionsColumns : \E k \in 0..MaxDetRows :
           \E rows \in [1..k -> RowsOver(cols)] :
               det_file = UploadedFile(nDetCsv, Parsed(cols, rows))
    /\ on_file = NoFile
    /\ det_sheet_url = <<>> /\ det_remote = Unreadable
    /\ on_sheet_url = <<>> /\ on_remote = Unreadable

\* on-call tables of every content: up to MaxOnRows rows
InitOn ==
    /\ Start
    /\ det_file = NoFile
    /\ \E cols \in OnCallColumns : \E k \in 0..MaxOnRows :
           \E rows \in [1..k -> RowsOver(cols)] :
               on_file = UploadedFile(nOnCsv, Parsed(cols, rows))
    /\ det_sheet_url = <<>> /\ det_remote = Unreadable
    /\ on_sheet_url = <<>> /\ on_remote = Unreadable

---------------------------------------------------------------------------
(* main, lines 319-340.  pc is the statement main executes next; "raised"  *)
(* is the script ended by an uncaught exception.                           *)

\* lines 322-325
LoadDetentions ==
    /\ pc = "load_det"
    /\ LET r == IF det_file.present THEN load_data_from_file(det_file)
                ELSE load_data_from_url(det_sheet_url, det_remote)
       IN  /\ det_df' = r.df
           /\ screen' = screen \o r.ui
           /\ reads' = reads \o r.reads
    /\ pc' = "load_on"
    /\ UNCHANGED <<det_file, on_file, det_sheet_url, on_sheet_url, det_remote,
                   on_remote, on_df>>

\* lines 326-329
LoadOnCall ==
    /\ pc = "load_on"
    /\ LET r == IF on_file.present THEN load_data_from_file(on_file)
                ELSE load_data_from_url(on_sheet_url, on_remote)
       IN  /\ on_df' = r.df
           /\ screen' = screen \o r.ui
           /\ reads' = reads \o r.reads
    /\ pc' = "det"
    /\ UNCHANGED <<det_file, on_file, det_sheet_url, on_sheet_url, det_remote,
                   on_remote, det_df>>

\* lines 331-333.  prepare_detentions strips the labels of the table it is
\* given in place (line 112), so they stay stripped when it raises later.
DetentionsDashboard ==
    /\ pc = "det"
    /\ IF ~det_df.some
       THEN /\ pc' = "on"
            /\ UNCHANGED <<det_df, screen>>
       ELSE LET prepared == prepare_detentions(det_df)
                rendered == render_detentions_dashboard(prepared.df)
            IN  IF prepared.raised
                THEN /\ det_df' = StripColumns(det_df)
                     /\ screen' = Append(screen, Traceback("prepare_detentions"))
                     /\ pc' = "raised"
                ELSE /\ det_df' = prepared.df
                     /\ screen' = screen \o rendered.ui \o
                            (IF rendered.raised
                             THEN <<Traceback("render_detentions_dashboard")>>
                             ELSE <<>>)
                     /\ pc' = IF rendered.raised THEN "raised" ELSE "on"
    /\ UNCHANGED <<det_file, on_file, det_sheet_url, on_sheet_url, det_remote,
                   on_remote, on_df, reads>>

\* lines 334-336
OnCallDashboard ==
    /\ pc = "on"
    /\ IF ~on_df.some
       THEN /\ pc' = "finish"
            /\ UNCHANGED <<on_df, screen>>
       ELSE LET prepared == prepare_oncall(on_df)
                rendered == render_oncall_dashboard(prepared.df)
            IN  IF prepared.raised
                THEN /\ on_df' = on_df
                     /\ screen' = Append(screen, Traceback("prepare_oncall"))
                     /\ pc' = "raised"
                ELSE /\ on_df' = prepared.df
                     /\ screen' = screen \o rendered.ui \o
                            (IF rendered.raised
                             THEN <<Traceback("render_oncall_dashboard")>>
                             ELSE <<>>)
                     /\ pc' = IF rendered.raised THEN "raised" ELSE "finish"
    /\ UNCHANGED <<det_file, on_file, det_sheet_url, on_sheet_url, det_remote,
                   on_remote, det_df, reads>>

\* lines 337-340
Finish ==
    /\ pc = "finish"
    /\ screen' = IF ~det_df.some /\ ~on_df.some
                 THEN Append(screen, Message("info",
                          "Please upload data files or provide Google Sheets links to see the dashboards."))
                 ELSE screen
    /\ pc' = "done"
    /\ UNCHANGED <<det_file, on_file, det_sheet_url, on_sheet_url, det_remote,
                   on_remote, det_df, on_df, reads>>

Next ==
    \/ LoadDetentions
    \/ LoadOnCall
    \/ DetentionsDashboard
    \/ OnCallDashboard
    \/ Finish

Spec == Init /\ [][Next]_vars

SpecUrl == InitUrl /\ [][Next]_vars

SpecDet == InitDet /\ [][Next]_vars

SpecOn == InitOn /\ [][Next]_vars

---------------------------------------------------------------------------
(* Reading the page.                                                       *)

\* the elements written under a dashboard's header, up to the next header
Section(title) ==
    IF \E i \in 1..Len(screen) : screen[i].w = "header" /\ screen[i].label = title
    THEN LET h == CHOOSE i \in 1..Len(screen) :
                      screen[i].w = "header" /\ screen[i].label = title
             later == {j \in (h+1)..Len(screen) :
                          screen[j].w \in {"header", "exception"}}
             end == IF later = {} THEN Len(screen)
                    ELSE (CHOOSE j \in later : \A k \in later : j <= k) - 1
         IN  SubSeq(screen, h + 1, end)
    ELSE <<>>

Shows(sec, w, label) == \E i \in 1..Len(sec) : sec[i].w = w /\ sec[i].label = label

Shown(sec, w, label) ==
    sec[CHOOSE i \in 1..Len(sec) : sec[i].w = w /\ sec[i].label = label].val

Raised(where) ==
    \E i \in 1..Len(screen) : screen[i].w = "exception" /\ screen[i].label = where

DetentionsSection == Section("Detentions Dashboard")

OnCallSection == Section("On-Call Dashboard")

\* main is past lines 331-333 / 334-336
DetentionsStepTaken == pc \in {"on", "finish", "done", "raised"}

OnCallStepTaken ==
    \/ pc \in {"finish", "done"}
    \/ pc = "raised" /\ ~Raised("prepare_detentions")
                     /\ ~Raised("render_detentions_dashboard")

RECURSIVE SumOf(_, _)
\* the sum of field f over a breakdown table
SumOf(table, f) ==
    IF table = <<>> THEN 0 ELSE Head(table)[f] + SumOf(Tail(table), f)

\* sub occurs in s at position i, character by character
Occurs(s, sub, i) ==
    /\ i >= 1 /\ i + Len(sub) - 1 <= Len(s)
    /\ \A k \in 1..Len(sub) : s[i + k - 1] = sub[k]

Within(s, sub) == \E i \in 1..Len(s) : Occurs(s, sub, i)

---------------------------------------------------------------------------
(* C1: the headline summary of the detentions dashboard.                   *)

present_lower == <<"p","r","e","s","e","n","t">>

\* the rows of the normalised table whose attendance reads "present" in
\* any letter case, anywhere in the cell
PresentRows ==
    {r \in 1..Len(det_df.rows) :
        \E i \in 1..Len(Cell(det_df, r, sDetentionAttendance)) :
            LET cell == Cell(det_df, r, sDetentionAttendance)
            IN  /\ i + 6 <= Len(cell)
                /\ lower(SubSeq(cell, i, i + 6)) = present_lower}

ExpectedAttended ==
    IF HasColumn(det_df, sDetentionAttendance) THEN Cardinality(PresentRows) ELSE 0

\* the detentions table was loaded and normalised, and names at most one
\* attendance column
DetentionsSummarised ==
    /\ DetentionsStepTaken
    /\ det_df.some
    /\ ~Raised("prepare_detentions")
    /\ ~Ambiguous(det_df, sDetentionAttendance)

HeadlineIs(total, att, rate_num, rate_den) ==
    /\ Shows(DetentionsSection, "metric", "Total Detentions")
    /\ Shows(DetentionsSection, "metric", "Attended")
    /\ Shows(DetentionsSection, "metric", "Attendance Rate")
    /\ Shown(DetentionsSection, "metric", "Total Detentions") = total
    /\ Shown(DetentionsSection, "metric", "Attended") = att
    /\ Shown(DetentionsSection, "metric", "Attendance Rate").kind = "ratio"
    /\ Shown(DetentionsSection, "metric", "Attendance Rate").num * rate_den
           = rate_num * Shown(DetentionsSection, "metric", "Attendance Rate").den

---------------------------------------------------------------------------
(* C6: the link a dataset is read from.                                    *)

\* the link text without its surrounding whitespace
Trimmed(link) ==
    LET inner == {i \in 1..Len(link) : ~IsSpace(link[i])}
    IN  IF inner = {} THEN <<>>
        ELSE SubSeq(link, CHOOSE i \in inner : \A j \in inner : i <= j,
                          CHOOSE i \in inner : \A j \in inner : j <= i)

\* a Google Sheets edit link
IsSheetsEditLink(u) == Within(u, sDocs) /\ Within(u, sEdit)

\* where the first "/d/" of u starts
FirstD(u) == CHOOSE i \in 1..Len(u) :
                 Occurs(u, sSlashD, i) /\ \A j \in 1..(i-1) : ~Occurs(u, sSlashD, j)

\* the text between the first "/d/" and the next "/" (the end of the link
\* when no "/" follows)
DocumentId(u) ==
    LET from == FirstD(u) + 3
        stops == {j \in from..Len(u) : u[j] = "/"}
        to == IF stops = {} THEN Len(u)
              ELSE (CHOOSE j \in stops : \A k \in stops : j <= k) - 1
    IN  SubSeq(u, from, to)

\* what load_data_from_url is to call for a link: the reader and its argument
ExpectedRead(link) ==
    LET u == Trimmed(link)
        used == IF IsSheetsEditLink(u) /\ Within(u, sSlashD)
                THEN sExportPrefix \o DocumentId(u) \o sExportSuffix
                ELSE u
        tail4 == SubSeq(used, Len(used) - 3, Len(used))
        tail5 == SubSeq(used, Len(used) - 4, Len(used))
        excel == \/ Len(used) >= 4 /\ lower(tail4) = sXls
                 \/ Len(used) >= 5 /\ lower(tail5) = sXlsx
    IN  ReadCall(IF excel THEN "read_excel" ELSE "read_csv", used)

\* C6: a link matching the Google Sheets edit pattern is read from the
\* CSV export address of the document whose id stands between the first
\* "/d/" and the next "/"; when no id can be extracted, and when the link
\* does not match, it is read from the trimmed link itself, and loading
\* raises nothing; the address is read as Excel iff it ends in .xls or .xlsx
\* in any letter case, as CSV otherwise.
C6_LinkRead ==
    /\ pc # "load_det" /\ det_sheet_url # <<>> =>
           /\ Len(reads) >= 1
           /\ reads[1] = ExpectedRead(det_sheet_url)
    /\ pc \notin {"load_det", "load_on"} /\ on_sheet_url # <<>> =>
           /\ Len(reads) >= 1
           /\ reads[Len(reads)] = ExpectedRead(on_sheet_url)
    /\ pc = "load_on" /\ Trimmed(det_sheet_url) # <<>> =>
           det_df.some /\ screen = <<>>

\* the edit link https://docs.google.com/spreadsheets/d/ABC123/edit#gid=0 was
\* read as CSV from .../d/ABC123/export?format=csv
C6_Witness ==
    /\ pc = "load_on"
    /\ det_sheet_url = pSheets \o sSlashD \o pId \o pEditGid
    /\ reads = <<ReadCall("read_csv", sExportPrefix \o pId \o sExportSuffix)>>

---------------------------------------------------------------------------
(* C10: the resolved and unresolved counts of the on-call dashboard.       *)

StatusRows(pat) ==
    {r \in 1..Len(on_df.rows) : Within(Cell(on_df, r, sStatus), pat)}

\* the three headline metrics of the on-call dashboard are on the page
OnCallSummarised ==
    /\ OnCallStepTaken
    /\ on_df.some
    /\ Shows(OnCallSection, "metric", "Total Incidents")
    /\ Shows(OnCallSection, "metric", "Resolved")
    /\ Shows(OnCallSection, "metric", "Unresolved")

CountsAreBySubstring ==
    /\ Shown(OnCallSection, "metric", "Total Incidents") = Len(on_df.rows)
    /\ Shown(OnCallSection, "metric", "Resolved") = Cardinality(StatusRows(sResolved))
    /\ Shown(OnCallSection, "metric", "Unresolved") = Cardinality(StatusRows(sUnresolved))
    /\ \A r \in 1..Len(on_df.rows) :
           isna(Cell(on_df, r, sStatus)) =>
               r \notin StatusRows(sResolved) \cup StatusRows(sUnresolved)

---------------------------------------------------------------------------
(* C2: one dataset's failure and the other dataset's dashboard.            *)

\* main reached lines 332-333 / 335-336 for the dataset
DetentionsReached ==
    \/ Shows(screen, "header", "Detentions Dashboard")
    \/ Raised("prepare_detentions")

OnCallReached ==
    \/ Shows(screen, "header", "On-Call Dashboard")
    \/ Raised("prepare_oncall")

\* C2: when the cycle has ended, a dataset that was loaded has had its
\* dashboard step reached, whatever happened to the other dataset.
C2_Independence ==
    pc \in {"done", "raised"} =>
        /\ on_df.some => OnCallReached
        /\ det_df.some => DetentionsReached

---------------------------------------------------------------------------
(* C3: tables lacking some of the expected columns.                        *)

OnlyLabels(content, S) == \A i \in 1..Len(content.cols) : content.cols[i] \in S

\* C3: a table with rows whose columns are any subset of the expected
\* ones is normalised and rendered without raising, each metric or breakdown
\* of a missing column being replaced by a warning or a 'no data' value.
C3_MissingColumns ==
    /\ ( /\ DetentionsStepTaken /\ det_file.present /\ det_df.some
         /\ Len(det_df.rows) > 0
         /\ OnlyLabels(det_file.content,
                {sStudent, sYear, sIssuedDate, sDetentionAttendance}) )
       => /\ ~Raised("prepare_detentions")
          /\ ~Raised("render_detentions_dashboard")
          /\ ~HasColumn(det_df, sYear) =>
                 Shows(DetentionsSection, "warning",
                       "The 'Year' column is missing from detentions data.")
          /\ ~HasColumn(det_df, sIssuedDate) =>
                 Shows(DetentionsSection, "warning",
                       "The 'Issued Date' column is missing from detentions data.")
          /\ ~HasColumn(det_df, sDetentionAttendance) =>
                 /\ Shows(DetentionsSection, "metric", "Attended")
                 /\ Shown(DetentionsSection, "metric", "Attended") = 0
    /\ ( /\ OnCallStepTaken /\ on_file.present /\ on_df.some
         /\ Len(on_df.rows) > 0
         /\ OnlyLabels(on_file.content, {sStatus, sType, sDateSlashTime}) )
       => /\ ~Raised("prepare_oncall")
          /\ ~Raised("render_oncall_dashboard")
          /\ ~HasColumn(on_df, sType) =>
                 Shows(OnCallSection, "warning",
                       "The 'Type' column is missing from on-call data.")
          /\ ~HasColumn(on_df, sDateTime) =>
                 Shows(OnCallSection, "warning",
                       "The 'Date/Time' column is missing from on-call data.")

---------------------------------------------------------------------------
(* C4: whitespace around column labels.                                    *)

\* numbers of spaces put before and after a label
Paddings == {<<1, 0>>, <<0, 1>>, <<1, 1>>}

Padded(c, p) == [i \in 1..p[1] |-> " "] \o c \o [i \in 1..p[2] |-> " "]

\* the file's table with the label of column i replaced
Relabelled(content, i, label) ==
    DataFrame([content.cols EXCEPT ![i] = label], content.rows)

Keys(mapping) == {p[1] : p \in mapping}

\* C4: for every column of the file whose label is a key of the rename
\* table, the same file with that label padded normalises to the same columns.
C4_TrimInvariant ==
    /\ ( DetentionsStepTaken /\ det_file.present /\ det_df.some
         /\ ~Raised("prepare_detentions") )
       => \A i \in 1..Len(det_file.content.cols) : \A p \in Paddings :
              ( /\ det_file.content.cols[i] \in Keys(DetentionsRenameMap)
                /\ ~HasColumn(det_file.content, Padded(det_file.content.cols[i], p)) )
              => prepare_detentions(Relabelled(det_file.content, i,
                     Padded(det_file.content.cols[i], p))).df.cols = det_df.cols
    /\ ( OnCallStepTaken /\ on_file.present /\ on_df.some
         /\ ~Raised("prepare_oncall") )
       => \A i \in 1..Len(on_file.content.cols) : \A p \in Paddings :
              ( /\ on_file.content.cols[i] \in Keys(OnCallRenameMap)
                /\ ~HasColumn(on_file.content, Padded(on_file.content.cols[i], p)) )
              => prepare_oncall(Relabelled(on_file.content, i,
                     Padded(on_file.content.cols[i], p))).df.cols = on_df.cols

---------------------------------------------------------------------------
(* C5: the attendance column found by its name.                            *)

\* the labels of the file after trimming and the rename table
TrimmedLabels ==
    [i \in 1..Len(det_file.content.cols) |->
        IF Trimmed(det_file.content.cols[i]) = sRegDotForm THEN sRegForm
        ELSE Trimmed(det_file.content.cols[i])]

AttendanceLike == {i \in 1..Len(TrimmedLabels) :
                      Within(lower(TrimmedLabels[i]), sAttendanceLower)}

\* C5: with no label 'Detention Attendance' after trimming and renaming,
\* the first column whose label contains "attendance" (any case) becomes
\* 'Detention Attendance' and every other column keeps its label and place;
\* with such a label present, or no label matching, the labels are unchanged.
C5_AttendanceFallback ==
    ( DetentionsStepTaken /\ det_file.present /\ det_df.some
      /\ ~Raised("prepare_detentions") )
    => det_df.cols =
          IF (\E i \in 1..Len(TrimmedLabels) : TrimmedLabels[i] = sDetentionAttendance)
             \/ AttendanceLike = {}
          THEN TrimmedLabels
          ELSE [TrimmedLabels EXCEPT
                   ![CHOOSE i \in AttendanceLike : \A j \in AttendanceLike : i <= j]
                       = sDetentionAttendance]

---------------------------------------------------------------------------
(* C7, C8, C9: the breakdown tables.                                       *)

YearShown == Shows(DetentionsSection, "dataframe", "Year Group Breakdown")

YearTable == Shown(DetentionsSection, "dataframe", "Year Group Breakdown")

DailyShown == Shows(DetentionsSection, "dataframe", "Daily Monitoring")

DailyTable == Shown(DetentionsSection, "dataframe", "Daily Monitoring")

TypeShown == Shows(OnCallSection, "dataframe", "Incident Type Breakdown")

TypeTable == Shown(OnCallSection, "dataframe", "Incident Type Breakdown")

IncidentsShown == Shows(OnCallSection, "dataframe", "Daily Monitoring")

IncidentsTable == Shown(OnCallSection, "dataframe", "Daily Monitoring")

\* the rows of a normalised table by the date in column c
Dated(df, c) == {r \in 1..Len(df.rows) : Cell(df, r, c) # NaT}

\* a day table counts, under field f, every dated row of df once, under its
\* calendar date, the dates ascending and none twice
DayTableOf(table, f, df, c) ==
    /\ SumOf(table, f) = Cardinality(Dated(df, c))
    /\ \A g \in 1..Len(table) :
           table[g][f] = Cardinality({r \in Dated(df, c) :
                                         date(Cell(df, r, c)) = table[g].key})
    /\ \A r \in Dated(df, c) :
           \E g \in 1..Len(table) : table[g].key = date(Cell(df, r, c))
    /\ \A g, h \in 1..Len(table) : g < h => table[g].key < table[h].key

\* C7: the day breakdown leaves out the rows without a date and counts
\* every other row exactly once under its calendar date, dates ascending.
C7_DayBreakdown ==
    /\ DetentionsStepTaken /\ det_df.some /\ DailyShown
           => DayTableOf(DailyTable, "Issued", det_df, sIssuedDate)
    /\ OnCallStepTaken /\ on_df.some /\ IncidentsShown
           => DayTableOf(IncidentsTable, "Incidents", on_df, sDateTime)

\* a category table counts, under field f, every row of df once, under its
\* value in column c, the missing value being a group of its own
CategoryTableOf(table, f, df, c) ==
    /\ SumOf(table, f) = Len(df.rows)
    /\ \A g \in 1..Len(table) :
           table[g][f] = Cardinality({r \in 1..Len(df.rows) :
                                         Cell(df, r, c) = table[g].key})

\* C8: the category breakdown groups all rows by Year (by Type), the
\* missing value included, so the counts sum to the number of rows; a group's
\* count is the number of its rows, its Attended the number of its rows whose
\* attendance is exactly "Present".
C8_CategoryBreakdown ==
    /\ DetentionsStepTaken /\ det_df.some /\ YearShown
           => /\ CategoryTableOf(YearTable, "Issued", det_df, sYear)
              /\ \A g \in 1..Len(YearTable) :
                     YearTable[g].Attended =
                         Cardinality({r \in 1..Len(det_df.rows) :
                             /\ Cell(det_df, r, sYear) = YearTable[g].key
                             /\ Cell(det_df, r, sDetentionAttendance) = sPresent})
    /\ OnCallStepTaken /\ on_df.some /\ TypeShown
           => CategoryTableOf(TypeTable, "Count", on_df, sType)

\* a breakdown row whose rate is a ratio in [0,1], or undefined exactly when
\* nothing was issued
RateInRange(row) ==
    /\ row.Attended <= row.Issued
    /\ row.Attendance_Rate.kind \in {"ratio", "nan"}
    /\ row.Attendance_Rate.kind = "nan" <=> row.Issued = 0
    /\ row.Attendance_Rate.kind = "ratio" =>
           /\ 0 <= row.Attendance_Rate.num
           /\ row.Attendance_Rate.num <= row.Attendance_Rate.den

\* C9: in every row of both detentions breakdowns Attended <= Issued and
\* the rate is a ratio in [0,1], or undefined exactly when Issued = 0; never
\* above 1, never an infinity.
C9_RateInRange ==
    DetentionsStepTaken /\ det_df.some =>
        /\ YearShown => \A g \in 1..Len(YearTable) : RateInRange(YearTable[g])
        /\ DailyShown => \A g \in 1..Len(DailyTable) : RateInRange(DailyTable[g])

=============================================================================
